---- MODULE Spec2Model ----
(***************************************************************************)
(* The asynchronous JSON-RPC 2.0 dispatch engine of lampo.rs:              *)
(*   lampo-async-jsonrpc/src/lib.rs  (Handler, JSONRPCv2)                  *)
(*   lampod/src/jsonrpc.rs           (CommandHandler, the external bridge) *)
(*                                                                         *)
(* The listener's accept loop spawns one task per accepted connection and  *)
(* awaits its JoinHandle before testing the stop flag again, so at most    *)
(* one connection handler of the listener is alive at a time: conn is      *)
(* that connection.  The bridge dispatches through the same Handler from   *)
(* its own caller.  Steps are split at the code's await points.            *)
(***************************************************************************)
EXTENDS Integers, Sequences, FiniteSets, TLC

(* ------------------------------ bounds -------------------------------- *)
MaxConns == 2

MaxAddRpc == 2

MaxBridgeCalls == 1

\* create_spending_transaction: the most descriptors in a call, the width
\* in bits standing for the 64 of an input value, and the value standing
\* for MAX_VALUE_MSAT / 1000, which like it is below the largest value
MaxDescriptors == 3

ValueBits == 4

MaxValueSat == 5

(* ------------------------- program constants -------------------------- *)
InvalidRequestCode == -32600

MethodNotFoundCode == -1

SocketMode == 438

(* --------------------------- JSON values ------------------------------ *)
\* serde_json::Value, every value in one record shape
JNull == [t |-> "null", s |-> "", o |-> <<>>]

JStr(s) == [t |-> "string", s |-> s, o |-> <<>>]

JObj(members) == [t |-> "object", s |-> "", o |-> members]

\* Option<T>
None == <<>>

Some(v) == <<v>>

IsSome(x) == Len(x) = 1

Unwrap(x) == x[1]

(* ------------------------------ inputs -------------------------------- *)
Versions == {"2.0", "1.0"}

MethodNames == {"echo", "pay", "missing"}

\* names the owning process registers during the population phase
RegistrableNames == {"echo", "pay"}

Params == {JObj(<<<<"a", JStr("1")>>>>), JNull}

Ids == {JStr("7"), JNull}

Requests == [jsonrpc : Versions, method : MethodNames, params : Params, id : Ids]

NoRequest == [jsonrpc |-> "", method |-> "", params |-> JNull, id |-> JNull]

\* what a peer may send: bytes that are no JSON, a JSON object lacking a
\* required envelope field, or the serialization of a request
Bytes ==
    {[kind |-> "garbage", req |-> NoRequest], [kind |-> "nofield", req |-> NoRequest]}
        \cup {[kind |-> "request", req |-> r] : r \in Requests}

\* the requests an outer subsystem hands to the bridge, which reads only
\* their method and params
BridgeRequests ==
    {r \in Requests : r.jsonrpc = "2.0" /\ r.params = JNull /\ r.id = JNull}

\* the shared application context (Arc<T>)
Ctx == "ctx"

\* the callbacks a process may register: one echoing its params, one whose
\* outcome the application decides
Callbacks == {"cb_echo", "cb_app"}

NoCallback == "none"

(* ------------------------------ errors -------------------------------- *)
RpcError(code, message, data) == [code |-> code, message |-> message, data |-> data]

\* From<RpcError> for errors::Error
RpcErrorIntoError(e) == [variant |-> "Rpc", rpc |-> e]

\* From<errors::Error> for RpcError
ErrorIntoRpcError(e) == e.rpc

Ok(v) == [ok |-> TRUE, val |-> v, err |-> RpcErrorIntoError(RpcError(0, "", None))]

Err(e) == [ok |-> FALSE, val |-> JNull, err |-> e]

AppErrors ==
    {RpcError(42, "insufficient funds", None), RpcError(7, "boom", Some(JStr("detail")))}

\* what awaiting callback(&ctx, params) may yield
CallbackOutcomes(cb, ctx, params) ==
    IF cb = "cb_echo"
    THEN {Ok(params)}
    ELSE {Ok(JStr("done"))} \cup {Err(RpcErrorIntoError(e)) : e \in AppErrors}

(* ------------------------------ state --------------------------------- *)
VARIABLES
    stop,            \* Handler.stop: Cell<bool>
    rpc_method,      \* Handler.rpc_method: RefCell<HashMap<String, AsyncFn<T>>>
    registered,      \* history: name -> callback of every add_rpc that found the name free first
    last_add,        \* history: whether the latest add_rpc named a registered method, and
                     \* whether it returned Ok
    n_add,           \* number of add_rpc calls made
    lpc,             \* where JSONRPCv2::listen is
    sock,            \* the file at the socket path and its permissions
    accepted,        \* number of connections accepted
    conn,            \* the connection of the task listen spawned, while the task exists
    bridge_handler,  \* CommandHandler.handler: RefCell<Option<Arc<Handler>>>
    n_handle,        \* number of CommandHandler::handle calls made
    bridge,          \* the CommandHandler::handle call in progress or returned last
    clients,         \* the peers of a run with a fixed set of clients: what each
                     \* sends, whether the listener has accepted it, what it received
    wallet,          \* a BDKWalletManager shared by threads: the borrow flag of its
                     \* RefCell, the owner of its Mutex, where each calling thread is
    managers,        \* the BDKWalletManager values built by try_from
    spend,           \* a call of create_spending_transaction: its locals and result
    cell             \* the RefCell around rpc_method as threads sharing the
                     \* Arc<Handler> reach it: its borrow flag, where each thread is

vars ==
    <<stop, rpc_method, registered, last_add, n_add, lpc, sock, accepted,
      conn, bridge_handler, n_handle, bridge, clients, wallet, managers, spend, cell>>

\* the state of the JSON-RPC engine and of its bridge
engine_vars ==
    <<stop, rpc_method, registered, last_add, n_add, lpc, sock, accepted,
      conn, bridge_handler, n_handle, bridge, clients>>

\* the state of the wallet and signer utilities
others == <<wallet, managers, spend, cell>>

(* ----------------------------- registry ------------------------------- *)
\* HashMap::new() / Default::default()
EmptyTable == [n \in {} |-> NoCallback]

\* HashMap::insert
Insert(table, method, callback) ==
    [n \in DOMAIN table \cup {method} |-> IF n = method THEN callback ELSE table[n]]

\* RefCell::take leaves Default::default() in the cell
TakeLeaves(table) == EmptyTable

\* Handler::add_method
add_method(table, method, callback) == Insert(table, method, callback)

\* Handler::has_rpc
has_rpc(method) == method \in DOMAIN rpc_method

\* the grave accent (U+0060) of the format string, written as a name
\* because the character cannot stand in a string of this module
Grave == "<U+0060>"

\* format!("method {grave}{}{grave} not found", req.method)
NotFoundMessage(method) == "method " \o Grave \o method \o Grave \o " not found"

\* NotFound with the standard method-not-found code in place of -1
NotFound_StandardCode(req) ==
    Err(RpcErrorIntoError(RpcError(-32601, NotFoundMessage(req.method), None)))

\* the error run_callback builds when the lookup fails
NotFound(req) ==
    Err(RpcErrorIntoError(RpcError(MethodNotFoundCode, NotFoundMessage(req.method), None)))

\* the arguments run_callback passes to the callback it found
CallbackCall(callback, req) == [cb |-> callback, ctx |-> Ctx, params |-> req.params]

\* Handler::run_callback up to its await: take the table out of the cell,
\* look the method up in what was taken; call is the callback invocation
\* it then awaits, resp the value it returns at once when there is none
run_callback(table, req) ==
    LET binding == table IN
    [ table   |-> TakeLeaves(table),
      call    |-> IF req.method \in DOMAIN binding
                  THEN Some(CallbackCall(binding[req.method], req))
                  ELSE None,
      resp    |-> IF req.method \in DOMAIN binding THEN None ELSE Some(NotFound(req)) ]

(* ------------------------- connection handler ------------------------- *)
Response(jsonrpc, result, error, id) ==
    [jsonrpc |-> jsonrpc, result |-> result, error |-> error, id |-> id]

\* serde_json::to_value(request)
ToValue(request) ==
    JObj(<< <<"jsonrpc", JStr(request.jsonrpc)>>, <<"method", JStr(request.method)>>,
            <<"params", request.params>>, <<"id", request.id>> >>)

\* serde_json::from_slice::<Request<Value>>
from_slice(bytes) == IF bytes.kind = "request" THEN Some(bytes.req) ELSE None

\* VersionOk with the test left out
VersionOk_Unchecked(payload) == TRUE

\* the version test of handle_request
VersionOk(payload) == payload.jsonrpc = "2.0"

\* InvalidRequest without the echoed request
InvalidRequest_NoData(payload) ==
    Response("2.0", None,
             Some(RpcError(InvalidRequestCode,
                           "Invalid reuqest: The JSON sent is not a valid Request object.",
                           None)),
             payload.id)

\* the Response handle_request returns on a version mismatch
InvalidRequest(payload) ==
    Response("2.0", None,
             Some(RpcError(InvalidRequestCode,
                           "Invalid reuqest: The JSON sent is not a valid Request object.",
                           Some(ToValue(payload)))),
             payload.id)

\* write whose error branch leaves the id out
write_ErrorWithoutId(request, resp) ==
    IF resp.ok
    THEN Response("2.0", Some(resp.val), None, request.id)
    ELSE Response("2.0", None, Some(ErrorIntoRpcError(resp.err)), JNull)

\* write whose error branch drops the error's data
write_ErrorWithoutData(request, resp) ==
    IF resp.ok
    THEN Response("2.0", Some(resp.val), None, request.id)
    ELSE Response("2.0", None,
                  Some([ErrorIntoRpcError(resp.err) EXCEPT !.data = None]), request.id)

\* write whose error branch also sets a null result
write_ErrorWithNullResult(request, resp) ==
    IF resp.ok
    THEN Response("2.0", Some(resp.val), None, request.id)
    ELSE Response("2.0", Some(JNull), Some(ErrorIntoRpcError(resp.err)), request.id)

\* JSONRPCv2::write
write(request, resp) ==
    IF resp.ok
    THEN Response("2.0", Some(resp.val), None, request.id)
    ELSE Response("2.0", None, Some(ErrorIntoRpcError(resp.err)), request.id)

\* an empty read buffer
NoBytes == [kind |-> "none", req |-> NoRequest]

NoConn ==
    [ pc |-> "none", bytes |-> NoBytes, req |-> NoRequest, lookups |-> 0, invoked |-> <<>>, outcome |-> None, response |-> None,
      wrote |-> <<>>, sent |-> <<>> ]

\* the task spawned for an accepted socket, before its read
NewConn == [NoConn EXCEPT !.pc = "read"]

\* JSONRPCv2::handle_request up to the await inside run_callback
HandleRequestStart(c, table, payload) ==
    LET p == [c EXCEPT !.req = payload] IN
    IF ~VersionOk(payload)
    THEN [ c |-> [p EXCEPT !.pc = "write", !.response = Some(InvalidRequest(payload))],
           table |-> table ]
    ELSE LET r == run_callback(table, payload)
             q == [p EXCEPT !.lookups = @ + 1]
         IN  [ c |-> IF IsSome(r.call)
                     THEN [q EXCEPT !.pc = "callback", !.invoked = Append(@, Unwrap(r.call))]
                     ELSE [q EXCEPT !.pc = "write", !.outcome = r.resp,
                                    !.response = Some(write(payload, Unwrap(r.resp)))],
               table |-> r.table ]

\* AfterRead answering unparsable bytes with a parse-error Response
AfterRead_ReplyOnParseError(c, table, read) ==
    IF ~IsSome(read)
    THEN [c |-> [c EXCEPT !.pc = "done"], table |-> table]
    ELSE LET got == [c EXCEPT !.bytes = Unwrap(read)] IN
         IF ~IsSome(from_slice(Unwrap(read)))
         THEN [ c |-> [got EXCEPT !.pc = "write",
                                  !.response = Some(Response("2.0", None,
                                      Some(RpcError(-32700, "Parse error", None)), JNull))],
                table |-> table ]
         ELSE HandleRequestStart(got, table, Unwrap(from_slice(Unwrap(read))))

\* the spawned task once socket.read_buf returned: Err, or Ok with the
\* bytes now in the buffer; then from_slice, and handle_request on Ok
AfterRead(c, table, read) ==
    IF ~IsSome(read)
    THEN [c |-> [c EXCEPT !.pc = "done"], table |-> table]
    ELSE LET got == [c EXCEPT !.bytes = Unwrap(read)] IN
         IF ~IsSome(from_slice(Unwrap(read)))
         THEN [c |-> [got EXCEPT !.pc = "done"], table |-> table]
         ELSE HandleRequestStart(got, table, Unwrap(from_slice(Unwrap(read))))

\* the awaited callback completed with resp: run_callback returns it and
\* handle_request wraps it with write
AfterCallback(c, resp) ==
    [c EXCEPT !.pc = "write", !.outcome = Some(resp), !.response = Some(write(c.req, resp))]

\* a task that keeps the socket and goes back to read after its write
AfterWrite_KeepOpen(c, write_ok) ==
    [c EXCEPT !.pc = "read",
              !.wrote = Append(@, Unwrap(c.response)),
              !.sent = IF write_ok THEN Append(@, Unwrap(c.response)) ELSE @]

\* socket.write_all(&response_bytes); its result is discarded
AfterWrite(c, write_ok) ==
    [c EXCEPT !.pc = "done",
              !.wrote = Append(@, Unwrap(c.response)),
              !.sent = IF write_ok THEN Append(@, Unwrap(c.response)) ELSE @]

(* ----------------------------- listener ------------------------------- *)
\* a startup that goes on to accept when set_permissions failed
Startup_IgnorePermissionError(s, rm_ok, bind_ok, perm_ok) ==
    LET exists == s.file # "absent"
        s1 == IF exists
              THEN [s EXCEPT !.file = IF rm_ok THEN "absent" ELSE @]
              ELSE s
        failed1 == exists /\ ~rm_ok
        s2 == IF failed1
              THEN s1
              ELSE [s1 EXCEPT !.file = IF bind_ok THEN "socket" ELSE @]
        failed2 == failed1 \/ ~bind_ok
        s3 == IF failed2
              THEN s2
              ELSE [s2 EXCEPT !.mode = IF perm_ok THEN SocketMode ELSE @]
    IN  [sock |-> s3, ok |-> ~failed2]

\* the startup of JSONRPCv2::listen: remove a file found at the path, bind,
\* set the permissions; each ? returns the error of the step that failed
Startup(s, rm_ok, bind_ok, perm_ok) ==
    LET exists == s.file # "absent"
        s1 == IF exists
              THEN [s EXCEPT !.file = IF rm_ok THEN "absent" ELSE @]
              ELSE s
        failed1 == exists /\ ~rm_ok
        s2 == IF failed1
              THEN s1
              ELSE [s1 EXCEPT !.file = IF bind_ok THEN "socket" ELSE @]
        failed2 == failed1 \/ ~bind_ok
        s3 == IF failed2
              THEN s2
              ELSE [s2 EXCEPT !.mode = IF perm_ok THEN SocketMode ELSE @]
    IN  [sock |-> s3, ok |-> ~failed2 /\ perm_ok]

(* ------------------------------ bridge -------------------------------- *)
\* error::Result<Option<json::Value>>
BridgeOk(v) == [ok |-> TRUE, val |-> v, err |-> RpcErrorIntoError(RpcError(0, "", None))]

BridgeErr(e) == [ok |-> FALSE, val |-> None, err |-> e]

NoCall ==
    [ pc |-> "idle", req |-> NoRequest, lookups |-> 0,
      invoked |-> <<>>, result |-> None ]

\* a bridge that wraps the outcome in a protocol envelope
HandleResult_Enveloped(resp) ==
    IF resp.ok
    THEN BridgeOk(Some(ToValue([jsonrpc |-> "2.0", method |-> "", params |-> resp.val, id |-> JNull])))
    ELSE BridgeErr(resp.err)

\* Ok(Some(resp?)) of CommandHandler::handle
HandleResult(resp) == IF resp.ok THEN BridgeOk(Some(resp.val)) ELSE BridgeErr(resp.err)

\* a bridge that dispatches whether or not a handler was installed
HandleStart_AlwaysDispatch(handler, table, req) ==
    LET b == [NoCall EXCEPT !.req = req]
        r == run_callback(table, req)
        q == [b EXCEPT !.lookups = @ + 1]
    IN  [ b |-> IF IsSome(r.call)
                THEN [q EXCEPT !.pc = "callback", !.invoked = Append(@, Unwrap(r.call))]
                ELSE [q EXCEPT !.pc = "returned",
                               !.result = Some(HandleResult(Unwrap(r.resp)))],
          table |-> r.table ]

\* CommandHandler::handle up to the await inside run_callback
HandleStart(handler, table, req) ==
    LET b == [NoCall EXCEPT !.req = req] IN
    IF ~handler
    THEN [ b |-> [b EXCEPT !.pc = "returned", !.result = Some(BridgeOk(None))],
           table |-> table ]
    ELSE LET r == run_callback(table, req)
             q == [b EXCEPT !.lookups = @ + 1]
         IN  [ b |-> IF IsSome(r.call)
                     THEN [q EXCEPT !.pc = "callback", !.invoked = Append(@, Unwrap(r.call))]
                     ELSE [q EXCEPT !.pc = "returned",
                                    !.result = Some(HandleResult(Unwrap(r.resp)))],
               table |-> r.table ]

(* ------------------------------ actions ------------------------------- *)
NoAdd == [called |-> FALSE, was_registered |-> FALSE, ok |-> FALSE]

\* no fixed set of clients: any peer may connect
NoClients == <<>>

\* no wallet is shared, no manager built, no spending transaction asked for
NoWallet == <<>>

NoManagers == <<>>

NoSpend == <<>>

\* the registry is reached by one thread at a time
NoCell == <<>>

Init ==
    /\ stop = FALSE
    /\ rpc_method = EmptyTable
    /\ registered = EmptyTable
    /\ last_add = NoAdd
    /\ n_add = 0
    /\ lpc = "init"
    /\ sock \in {[file |-> f, mode |-> 0] : f \in {"absent", "stale"}}
    /\ accepted = 0
    /\ conn = NoConn
    /\ bridge_handler = FALSE
    /\ n_handle = 0
    /\ bridge = NoCall
    /\ clients = NoClients
    /\ wallet = NoWallet
    /\ managers = NoManagers
    /\ spend = NoSpend
    /\ cell = NoCell

\* JSONRPCv2::add_rpc, callable while the JSONRPCv2 value is still owned,
\* that is before listen(self) consumes it
add_rpc(name, callback) ==
    /\ lpc = "init"
    /\ n_add < MaxAddRpc
    /\ rpc_method' = IF has_rpc(name) THEN rpc_method ELSE add_method(rpc_method, name, callback)
    /\ last_add' = [ called |-> TRUE, was_registered |-> name \in DOMAIN registered,
                     ok |-> ~has_rpc(name) ]
    /\ registered' = IF name \in DOMAIN registered
                     THEN registered
                     ELSE Insert(registered, name, callback)
    /\ n_add' = n_add + 1
    /\ UNCHANGED <<others, clients, stop, lpc, sock, accepted, conn, bridge_handler, n_handle, bridge>>

\* Handler::stop
stop_call ==
    /\ stop' = TRUE
    /\ UNCHANGED <<others, clients, rpc_method, registered, last_add, n_add, lpc, sock, accepted,
                   conn, bridge_handler, n_handle, bridge>>

\* JSONRPCv2::listen, from its entry to the first test of the loop
listen ==
    /\ lpc = "init"
    /\ \E rm_ok, bind_ok, perm_ok \in BOOLEAN :
        LET r == Startup(sock, rm_ok, bind_ok, perm_ok) IN
        /\ sock' = r.sock
        /\ lpc' = IF r.ok THEN "test" ELSE "failed"
    /\ UNCHANGED <<others, clients, stop, rpc_method, registered, last_add, n_add, accepted, conn,
                   bridge_handler, n_handle, bridge>>

\* a loop that goes on to accept whatever the flag says
loop_test_IgnoreStop ==
    /\ lpc = "test"
    /\ lpc' = "accept"
    /\ UNCHANGED <<others, clients, stop, rpc_method, registered, last_add, n_add, sock, accepted,
                   conn, bridge_handler, n_handle, bridge>>

\* while !self.handler.stop.get()
loop_test ==
    /\ lpc = "test"
    /\ lpc' = IF stop THEN "returned" ELSE "accept"
    /\ UNCHANGED <<others, clients, stop, rpc_method, registered, last_add, n_add, sock, accepted,
                   conn, bridge_handler, n_handle, bridge>>

\* listener.accept().await.unwrap(), then tokio::spawn of the handler task
accept ==
    /\ lpc = "accept"
    /\ accepted < MaxConns
    /\ \E accept_ok \in BOOLEAN :
        IF accept_ok
        THEN /\ conn' = NewConn
             /\ accepted' = accepted + 1
             /\ lpc' = "join"
        ELSE /\ lpc' = "panicked"
             /\ UNCHANGED <<conn, accepted>>
    /\ UNCHANGED <<others, clients, stop, rpc_method, registered, last_add, n_add, sock,
                   bridge_handler, n_handle, bridge>>

\* the spawned task: read_buf, from_slice, handle_request up to its await
handler_read ==
    /\ conn.pc = "read"
    /\ \E read \in {None} \cup {Some(b) : b \in Bytes} :
        LET r == AfterRead(conn, rpc_method, read) IN
        /\ conn' = r.c
        /\ rpc_method' = r.table
    /\ UNCHANGED <<others, clients, stop, registered, last_add, n_add, lpc, sock, accepted, bridge_handler,
                   n_handle, bridge>>

\* the spawned task: the callback's future completes
handler_callback ==
    /\ conn.pc = "callback"
    /\ \E resp \in CallbackOutcomes(conn.invoked[1].cb, conn.invoked[1].ctx, conn.invoked[1].params) :
        conn' = AfterCallback(conn, resp)
    /\ UNCHANGED <<others, clients, stop, rpc_method, registered, last_add, n_add, lpc, sock,
                   accepted, bridge_handler, n_handle, bridge>>

\* a task that gives up its write once the stop flag is set
handler_write_UnlessStopped ==
    /\ ~stop
    /\ conn.pc = "write"
    /\ \E write_ok \in BOOLEAN : conn' = AfterWrite(conn, write_ok)
    /\ UNCHANGED <<others, clients, stop, rpc_method, registered, last_add, n_add, lpc, sock,
                   accepted, bridge_handler, n_handle, bridge>>

\* the spawned task: write_all, after which the task ends and the socket drops
handler_write ==
    /\ conn.pc = "write"
    /\ \E write_ok \in BOOLEAN : conn' = AfterWrite(conn, write_ok)
    /\ UNCHANGED <<others, clients, stop, rpc_method, registered, last_add, n_add, lpc, sock,
                   accepted, bridge_handler, n_handle, bridge>>

\* the .await on the JoinHandle of the finished task returns; the task and
\* its socket are gone
join ==
    /\ lpc = "join"
    /\ conn.pc = "done"
    /\ lpc' = "test"
    /\ conn' = NoConn
    /\ UNCHANGED <<others, clients, stop, rpc_method, registered, last_add, n_add, sock, accepted,
                   bridge_handler, n_handle, bridge>>

\* CommandHandler::set_handler with JSONRPCv2::handler()
set_handler ==
    /\ bridge_handler' = TRUE
    /\ UNCHANGED <<others, clients, stop, rpc_method, registered, last_add, n_add, lpc, sock,
                   accepted, conn, n_handle, bridge>>

\* CommandHandler::handle up to its await
handle ==
    /\ bridge.pc # "callback"
    /\ n_handle < MaxBridgeCalls
    /\ \E req \in BridgeRequests :
        LET r == HandleStart(bridge_handler, rpc_method, req) IN
        /\ bridge' = r.b
        /\ rpc_method' = r.table
    /\ n_handle' = n_handle + 1
    /\ UNCHANGED <<others, clients, stop, registered, last_add, n_add, lpc, sock, accepted, conn, bridge_handler>>

\* CommandHandler::handle: the callback's future completes
handle_callback ==
    /\ bridge.pc = "callback"
    /\ \E resp \in CallbackOutcomes(bridge.invoked[1].cb, bridge.invoked[1].ctx, bridge.invoked[1].params) :
        bridge' = [bridge EXCEPT !.pc = "returned", !.result = Some(HandleResult(resp))]
    /\ UNCHANGED <<others, clients, stop, rpc_method, registered, last_add, n_add, lpc, sock,
                   accepted, conn, bridge_handler, n_handle>>

Next ==
    \/ \E name \in RegistrableNames, callback \in Callbacks : add_rpc(name, callback)
    \/ stop_call
    \/ listen
    \/ loop_test
    \/ accept
    \/ handler_read
    \/ handler_callback
    \/ handler_write
    \/ join
    \/ set_handler
    \/ handle
    \/ handle_callback

Spec == Init /\ [][Next]_vars

(* ------------------- a fixed set of clients, all connecting ------------- *)
\* a peer that has connected to the socket and waits in the listen backlog
Client(bytes) == [state |-> "pending", bytes |-> bytes, got |-> <<>>]

\* the population phase is over and listen has bound the socket; every
\* client has connected and will send its bytes once accepted
InitClients ==
    /\ stop = FALSE
    /\ rpc_method \in [RegistrableNames -> Callbacks]
    /\ registered = rpc_method
    /\ last_add = NoAdd
    /\ n_add = 0
    /\ lpc = "test"
    /\ sock = [file |-> "socket", mode |-> SocketMode]
    /\ accepted = 0
    /\ conn = NoConn
    /\ bridge_handler = FALSE
    /\ n_handle = 0
    /\ bridge = NoCall
    /\ clients \in [1..MaxConns -> {Client(b) : b \in Bytes}]
    /\ wallet = NoWallet
    /\ managers = NoManagers
    /\ spend = NoSpend
    /\ cell = NoCell

\* listener.accept() returns the socket of one of the waiting clients
client_accept ==
    /\ lpc = "accept"
    /\ \E k \in DOMAIN clients :
        /\ clients[k].state = "pending"
        /\ clients' = [clients EXCEPT ![k].state = "connected"]
    /\ conn' = NewConn
    /\ accepted' = accepted + 1
    /\ lpc' = "join"
    /\ UNCHANGED <<others, stop, rpc_method, registered, last_add, n_add, sock,
                   bridge_handler, n_handle, bridge>>

\* the spawned task reads what the accepted client sent
client_read ==
    /\ conn.pc = "read"
    /\ \E k \in DOMAIN clients :
        /\ clients[k].state = "connected"
        /\ LET r == AfterRead(conn, rpc_method, Some(clients[k].bytes)) IN
           /\ conn' = r.c
           /\ rpc_method' = r.table
    /\ UNCHANGED <<others, clients, stop, registered, last_add, n_add, lpc, sock, accepted,
                   bridge_handler, n_handle, bridge>>

\* the task ends and drops the socket: the client has what was sent to it
client_join ==
    /\ lpc = "join"
    /\ conn.pc = "done"
    /\ lpc' = "test"
    /\ conn' = NoConn
    /\ clients' = [k \in DOMAIN clients |->
                      IF clients[k].state = "connected"
                      THEN [clients[k] EXCEPT !.state = "closed", !.got = conn.sent]
                      ELSE clients[k]]
    /\ UNCHANGED <<others, stop, rpc_method, registered, last_add, n_add, sock, accepted,
                   bridge_handler, n_handle, bridge>>

NextClients ==
    \/ loop_test
    \/ client_accept
    \/ client_read
    \/ handler_callback
    \/ handler_write
    \/ client_join

\* the runtime runs every task that can make progress
SpecClients == InitClients /\ [][NextClients]_vars /\ WF_vars(NextClients)

(* ---------------------- the engine left as constructed ----------------- *)
EngineIdle ==
    /\ stop = FALSE
    /\ rpc_method = EmptyTable
    /\ registered = EmptyTable
    /\ last_add = NoAdd
    /\ n_add = 0
    /\ lpc = "init"
    /\ sock = [file |-> "absent", mode |-> 0]
    /\ accepted = 0
    /\ conn = NoConn
    /\ bridge_handler = FALSE
    /\ n_handle = 0
    /\ bridge = NoCall
    /\ clients = NoClients

(* ------------------ BDKWalletManager shared by threads ------------------ *)
\* the threads holding a reference to one BDKWalletManager
Threads == {1, 2}

\* lampo_common::conf::Network
Networks == {"bitcoin", "testnet", "regtest"}

\* the methods of WalletManager that touch self.wallet
Methods ==
    {"get_onchain_address", "get_onchain_balance", "create_transaction",
     "list_transactions", "sync"}

\* the accesses to self.wallet a method makes, in order: "sync" is the call
\* of self.sync(), which borrows, "shared" a borrow(), "mut" a borrow_mut()
Sections(m) ==
    CASE m = "get_onchain_address" -> <<"mut">>
      [] m = "get_onchain_balance" -> <<"sync", "shared">>
      [] m = "create_transaction"  -> <<"sync", "mut">>
      [] m = "list_transactions"   -> <<"sync", "shared">>
      [] OTHER                     -> <<"sync">>

\* sync bails out before it borrows unless the network has an esplora url
SyncSupported(network) == network \in {"bitcoin", "testnet"}

\* RefCell::borrow / borrow_mut on the borrow flag read: shared borrows
\* count upwards from 0, a mutable borrow is -1
BorrowOk(section, seen) == IF section = "mut" THEN seen = 0 ELSE seen + 1 > 0

BorrowFlag(section, seen) == IF section = "mut" THEN 0 - 1 ELSE seen + 1

\* drop of the Ref or RefMut
ReleaseFlag(section, seen) == IF section = "mut" THEN seen + 1 ELSE seen - 1

NoThread == [pc |-> "idle", method |-> "", sec |-> 0, seen |-> 0, failed |-> FALSE]

\* RefCell::new(Mutex::new(wallet)) with no caller yet
NewWallet(network) ==
    [network |-> network, flag |-> 0, mutex |-> 0, th |-> [t \in Threads |-> NoThread]]

\* thread t enters access i of its method, or returns when there is none
\* left, an earlier one failed, or sync has no url for the network
Enter(w, t, i) ==
    LET me == w.th[t]
        secs == Sections(me.method)
    IN  IF me.failed \/ i > Len(secs)
        THEN [w EXCEPT !.th[t].pc = "returned"]
        ELSE IF secs[i] = "sync" /\ ~SyncSupported(w.network)
        THEN [w EXCEPT !.th[t].pc = "returned", !.th[t].failed = TRUE]
        ELSE [w EXCEPT !.th[t].pc = "load", !.th[t].sec = i]

\* the access thread t is in
Section(w, t) == Sections(w.th[t].method)[w.th[t].sec]

InitWallet ==
    /\ EngineIdle
    /\ wallet \in {NewWallet(n) : n \in Networks}
    /\ managers = NoManagers
    /\ spend = NoSpend
    /\ cell = NoCell

\* a thread calls a method of the shared manager
wallet_call(t, m) ==
    /\ wallet.th[t].pc = "idle"
    /\ wallet' = Enter([wallet EXCEPT !.th[t].method = m], t, 1)
    /\ UNCHANGED <<engine_vars, managers, spend, cell>>

\* borrow() / borrow_mut(): the read of the RefCell's borrow flag, a Cell
\* that nothing synchronizes between threads
wallet_borrow_load(t) ==
    /\ wallet.th[t].pc = "load"
    /\ wallet' = [wallet EXCEPT !.th[t].seen = wallet.flag, !.th[t].pc = "store"]
    /\ UNCHANGED <<engine_vars, managers, spend, cell>>

\* borrow() / borrow_mut(): panic on a conflicting flag, else write it
wallet_borrow_store(t) ==
    /\ wallet.th[t].pc = "store"
    /\ wallet' = IF BorrowOk(Section(wallet, t), wallet.th[t].seen)
                  THEN [wallet EXCEPT !.flag = BorrowFlag(Section(wallet, t), wallet.th[t].seen),
                                      !.th[t].pc = "lock"]
                  ELSE [wallet EXCEPT !.th[t].pc = "panicked"]
    /\ UNCHANGED <<engine_vars, managers, spend, cell>>

\* .lock().unwrap(): blocks until the Mutex is free
wallet_lock(t) ==
    /\ wallet.th[t].pc = "lock"
    /\ wallet.mutex = 0
    /\ wallet' = [wallet EXCEPT !.mutex = t, !.th[t].pc = "work"]
    /\ UNCHANGED <<engine_vars, managers, spend, cell>>

\* the work on the locked wallet, which may fail with ?
wallet_work(t) ==
    /\ wallet.th[t].pc = "work"
    /\ \E ok \in BOOLEAN :
        wallet' = [wallet EXCEPT !.th[t].failed = ~ok, !.th[t].pc = "unlock"]
    /\ UNCHANGED <<engine_vars, managers, spend, cell>>

\* drop of the MutexGuard
wallet_unlock(t) ==
    /\ wallet.th[t].pc = "unlock"
    /\ wallet' = [wallet EXCEPT !.mutex = 0, !.th[t].pc = "rel_load"]
    /\ UNCHANGED <<engine_vars, managers, spend, cell>>

\* drop of the Ref / RefMut: the read of the borrow flag
wallet_release_load(t) ==
    /\ wallet.th[t].pc = "rel_load"
    /\ wallet' = [wallet EXCEPT !.th[t].seen = wallet.flag, !.th[t].pc = "rel_store"]
    /\ UNCHANGED <<engine_vars, managers, spend, cell>>

\* drop of the Ref / RefMut: the write of the borrow flag, then the next
\* access of the method or its return
wallet_release_store(t) ==
    /\ wallet.th[t].pc = "rel_store"
    /\ wallet' = Enter([wallet EXCEPT !.flag = ReleaseFlag(Section(wallet, t), wallet.th[t].seen)],
                        t, wallet.th[t].sec + 1)
    /\ UNCHANGED <<engine_vars, managers, spend, cell>>

NextWallet ==
    \/ \E t \in Threads, m \in Methods : wallet_call(t, m)
    \/ \E t \in Threads : wallet_borrow_load(t)
    \/ \E t \in Threads : wallet_borrow_store(t)
    \/ \E t \in Threads : wallet_lock(t)
    \/ \E t \in Threads : wallet_work(t)
    \/ \E t \in Threads : wallet_unlock(t)
    \/ \E t \in Threads : wallet_release_load(t)
    \/ \E t \in Threads : wallet_release_store(t)

SpecWallet == InitWallet /\ [][NextWallet]_vars

(* ------------- the registry's RefCell reached from several threads ------ *)
\* the holders of the Arc<Handler>: the task spawned for a connection, the
\* caller of CommandHandler::handle, and the owner that configures it
Accessors == {"task", "bridge", "owner"}

\* what each holder calls on the Handler
Operations(a) ==
    IF a = "owner" THEN {"add_method", "has_rpc", "stop"} ELSE {"run_callback"}

\* how the operation reaches rpc_method: take() and borrow_mut() borrow
\* mutably, borrow() shared
Access(op) == IF op = "has_rpc" THEN "shared" ELSE "mut"

NoAccess == [pc |-> "idle", op |-> "", seen |-> 0]

\* Handler::new
NewCell == [flag |-> 0, acc |-> [a \in Accessors |-> NoAccess]]

InitRegistry ==
    /\ EngineIdle
    /\ wallet = NoWallet
    /\ managers = NoManagers
    /\ spend = NoSpend
    /\ cell = NewCell

\* Handler::stop: sets the stop Cell and does not touch rpc_method
cell_stop ==
    /\ cell.acc["owner"].pc = "idle"
    /\ cell' = [cell EXCEPT !.acc["owner"].op = "stop", !.acc["owner"].pc = "done"]
    /\ stop' = TRUE
    /\ UNCHANGED <<rpc_method, registered, last_add, n_add, lpc, sock, accepted,
                   conn, bridge_handler, n_handle, bridge, clients, wallet, managers, spend>>

\* a holder calls run_callback, add_method or has_rpc
cell_call(a, op) ==
    /\ cell.acc[a].pc = "idle"
    /\ op # "stop"
    /\ cell' = [cell EXCEPT !.acc[a].op = op, !.acc[a].pc = "load"]
    /\ UNCHANGED <<engine_vars, wallet, managers, spend>>

\* take() / borrow_mut() / borrow(): the read of the borrow flag
cell_borrow_load(a) ==
    /\ cell.acc[a].pc = "load"
    /\ cell' = [cell EXCEPT !.acc[a].seen = cell.flag, !.acc[a].pc = "store"]
    /\ UNCHANGED <<engine_vars, wallet, managers, spend>>

\* take() / borrow_mut() / borrow(): panic on a conflicting flag, else
\* write it; the holder then has its reference to the HashMap
cell_borrow_store(a) ==
    /\ cell.acc[a].pc = "store"
    /\ cell' = IF BorrowOk(Access(cell.acc[a].op), cell.acc[a].seen)
                THEN [cell EXCEPT !.flag = BorrowFlag(Access(cell.acc[a].op), cell.acc[a].seen),
                                  !.acc[a].pc = "in"]
                ELSE [cell EXCEPT !.acc[a].pc = "panicked"]
    /\ UNCHANGED <<engine_vars, wallet, managers, spend>>

\* the access itself is over: the HashMap was replaced, inserted into or
\* looked up
cell_access(a) ==
    /\ cell.acc[a].pc = "in"
    /\ cell' = [cell EXCEPT !.acc[a].pc = "rel_load"]
    /\ UNCHANGED <<engine_vars, wallet, managers, spend>>

\* drop of the Ref / RefMut: the read of the borrow flag
cell_release_load(a) ==
    /\ cell.acc[a].pc = "rel_load"
    /\ cell' = [cell EXCEPT !.acc[a].seen = cell.flag, !.acc[a].pc = "rel_store"]
    /\ UNCHANGED <<engine_vars, wallet, managers, spend>>

\* drop of the Ref / RefMut: the write of the borrow flag
cell_release_store(a) ==
    /\ cell.acc[a].pc = "rel_store"
    /\ cell' = [cell EXCEPT !.flag = ReleaseFlag(Access(cell.acc[a].op), cell.acc[a].seen),
                            !.acc[a].pc = "done"]
    /\ UNCHANGED <<engine_vars, wallet, managers, spend>>

NextRegistry ==
    \/ cell_stop
    \/ \E a \in Accessors : \E op \in Operations(a) : cell_call(a, op)
    \/ \E a \in Accessors : cell_borrow_load(a)
    \/ \E a \in Accessors : cell_borrow_store(a)
    \/ \E a \in Accessors : cell_access(a)
    \/ \E a \in Accessors : cell_release_load(a)
    \/ \E a \in Accessors : cell_release_store(a)

SpecRegistry == InitRegistry /\ [][NextRegistry]_vars

(* ---------------- BDKWalletManager built from a private key ------------- *)
\* bitcoin::PrivateKey: a secret key and the network it is for
Secrets == {"secret1", "secret2"}

BitcoinNetworks == {"bitcoin", "testnet", "signet", "regtest"}

PrivateKeys == {[inner |-> k, network |-> n] : k \in Secrets, n \in BitcoinNetworks}

\* Option<String> of channel keys
ChannelKeys == {None, Some("channel_keys")}

\* &[0u8; 32]
ZeroSeed == "00000000000000000000000000000000"

\* ExtendedPrivKey::new_master: the master key is a function of its seed
new_master(network, seed) == [network |-> network, seed |-> seed]

\* bdk::template::Bip84: the descriptor is a function of key and keychain
Bip84(key, keychain) == [key |-> key, keychain |-> keychain]

\* LampoKeys::new / LampoKeys::with_channel_keys
LampoKeys(secret_bytes, channel_keys) == [secret |-> secret_bytes, channel_keys |-> channel_keys]

\* Wallet::new over an empty MemoryDatabase
WalletNew(descriptor, change_descriptor, network) ==
    [descriptor |-> descriptor, change_descriptor |-> change_descriptor,
     network |-> network, index |-> 0]

\* BDKWalletManager::build_from_private_key
build_from_private_key(xprv, channel_keys) ==
    LET ldk_keys == LampoKeys(xprv.inner, channel_keys)
        network == xprv.network
        master == new_master(network, ZeroSeed)
    IN  [wallet |-> WalletNew(Bip84(master, "External"), Bip84(master, "Internal"), network),
         keys |-> ldk_keys]

\* TryFrom<(PrivateKey, Option<String>)> for BDKWalletManager
try_from(value) ==
    LET built == build_from_private_key(value[1], value[2])
    IN  [wallet |-> built.wallet, keymanager |-> built.keys, network |-> "regtest"]

\* Wallet::get_address(AddressIndex::New): the address at the next index
AddressAt(w) == [descriptor |-> w.descriptor, index |-> w.index]

NoManager == [built |-> FALSE, key |-> [inner |-> "", network |-> ""],
              mgr |-> try_from(<<[inner |-> "", network |-> ""], None>>),
              addresses |-> <<>>]

Slots == {1, 2}

InitKeys ==
    /\ EngineIdle
    /\ wallet = NoWallet
    /\ managers = [i \in Slots |-> NoManager]
    /\ spend = NoSpend
    /\ cell = NoCell

\* BDKWalletManager::try_from((pkey, channel_keys))
manager_try_from(i, key, channel_keys) ==
    /\ ~managers[i].built
    /\ managers' = [managers EXCEPT ![i] =
                        [built |-> TRUE, key |-> key,
                         mgr |-> try_from(<<key, channel_keys>>), addresses |-> <<>>]]
    /\ UNCHANGED <<engine_vars, wallet, spend, cell>>

\* the first get_onchain_address of a manager
manager_get_onchain_address(i) ==
    /\ managers[i].built
    /\ managers[i].addresses = <<>>
    /\ managers' = [managers EXCEPT ![i].addresses = Append(@, AddressAt(managers[i].mgr.wallet)),
                                    ![i].mgr.wallet.index = @ + 1]
    /\ UNCHANGED <<engine_vars, wallet, spend, cell>>

NextKeys ==
    \/ \E i \in Slots, key \in PrivateKeys, ck \in ChannelKeys : manager_try_from(i, key, ck)
    \/ \E i \in Slots : manager_get_onchain_address(i)

SpecKeys == InitKeys /\ [][NextKeys]_vars

(* -------------------- create_spending_transaction ----------------------- *)
Outpoints == {"txa:0", "txb:1"}

\* the variants of SpendableOutputDescriptor
Kinds == {"StaticPaymentOutput", "DelayedPaymentOutput", "StaticOutput"}

\* output values: small ones and the largest the integer holds
Values == {1, 3, 2^ValueBits - 1}

Descriptors ==
    {[kind |-> k, outpoint |-> o, value |-> v] : k \in Kinds, o \in Outpoints, v \in Values}

DescriptorLists == UNION {[1..n -> Descriptors] : n \in 0..MaxDescriptors}

\* the TxIn pushed for a descriptor
TxIn(d) ==
    [previous_output |-> d.outpoint,
     sequence |-> IF d.kind = "DelayedPaymentOutput" THEN "to_self_delay" ELSE "ZERO"]

SpendErr(msg) == [tag |-> "Err", msg |-> msg, input |-> <<>>]

SpendPanic == [tag |-> "panic", msg |-> "attempt to add with overflow", input |-> <<>>]

SpendOk(input) == [tag |-> "Ok", msg |-> "", input |-> input]

\* the for loop from descriptor i on; overflow_checks is whether the build
\* panics on integer overflow or wraps
RECURSIVE SpendLoop(_, _, _, _, _, _)
SpendLoop(descriptors, i, input, input_value, output_set, overflow_checks) ==
    IF i > Len(descriptors)
    THEN [tag |-> "Done", msg |-> "", input |-> input]
    ELSE LET outp == descriptors[i]
             pushed == Append(input, TxIn(outp))
             sum == input_value + outp.value
         IN  IF sum >= 2^ValueBits /\ overflow_checks
             THEN SpendPanic
             ELSE IF outp.outpoint \in output_set
             THEN SpendErr("duplicate")
             ELSE IF sum % 2^ValueBits > MaxValueSat
             THEN SpendErr("overflow")
             ELSE SpendLoop(descriptors, i + 1, pushed, sum % 2^ValueBits,
                            output_set \cup {outp.outpoint}, overflow_checks)

\* create_spending_transaction; change_ok is whether maybe_add_change_output
\* succeeds, which leaves the inputs as they are
create_spending_transaction(descriptors, overflow_checks, change_ok) ==
    LET r == SpendLoop(descriptors, 1, <<>>, 0, {}, overflow_checks)
    IN  IF r.tag # "Done"
        THEN r
        ELSE IF change_ok THEN SpendOk(r.input) ELSE SpendErr("could not add or change")

IdleSpend == [called |-> FALSE, descriptors |-> <<>>, result |-> SpendOk(<<>>)]

InitSpend ==
    /\ EngineIdle
    /\ wallet = NoWallet
    /\ managers = NoManagers
    /\ spend = IdleSpend
    /\ cell = NoCell

spend_call(descriptors, overflow_checks, change_ok) ==
    /\ ~spend.called
    /\ spend' = [called |-> TRUE, descriptors |-> descriptors,
                 result |-> create_spending_transaction(descriptors, overflow_checks, change_ok)]
    /\ UNCHANGED <<engine_vars, wallet, managers, cell>>

NextSpend ==
    \E descriptors \in DescriptorLists, overflow_checks \in BOOLEAN, change_ok \in BOOLEAN :
        spend_call(descriptors, overflow_checks, change_ok)

SpecSpend == InitSpend /\ [][NextSpend]_vars

(* ------------------------------ claims -------------------------------- *)
\* the connection's bytes parsed into a Request
Parsed == conn.bytes.kind = "request"

\* the Request the peer of the connection sent
Sent == conn.bytes.req

\* a step in which run_callback is called, by the connection handler or by the bridge
DispatchStep ==
    \/ conn.pc = "read" /\ conn'.lookups = 1
    \/ n_handle' = n_handle + 1 /\ bridge'.lookups = 1

\* the wire form of a request
WireRequest(r) ==
    [ t |-> "object", s |-> "",
      o |-> << <<"jsonrpc", [t |-> "string", s |-> r.jsonrpc, o |-> <<>>]>>,
               <<"method", [t |-> "string", s |-> r.method, o |-> <<>>]>>,
               <<"params", r.params>>, <<"id", r.id>> >> ]

\* C1: a connection whose bytes parse into a Request is written exactly one
\* Response, whose id is the Request's id, whatever its version and method,
\* for every connection the listener serves; no connection is written two.
C1_OneResponseWithRequestId ==
    /\ Len(conn.wrote) <= 1
    /\ (conn.pc = "done" /\ Parsed) =>
           (Len(conn.wrote) = 1 /\ conn.wrote[1].id = Sent.id)

C1_Witness ==
    /\ accepted >= 2
    /\ conn.pc = "done"
    /\ Parsed
    /\ Sent.method \notin DOMAIN registered
    /\ Sent.id = JStr("7")
    /\ Len(conn.wrote) = 1

\* C2: a step that calls run_callback leaves the method table as it was.
C2_DispatchLeavesRegistry == [][DispatchStep => rpc_method' = rpc_method]_vars

\* C3: add_rpc of a name registered before returns an error, the table
\* never maps a name to another callback than the one registered first, and
\* every dispatch of a name invokes the callback registered first.
C3_DuplicateRejected ==
    /\ (last_add.called /\ last_add.was_registered) => ~last_add.ok
    /\ \A n \in DOMAIN rpc_method : rpc_method[n] = registered[n]
    /\ conn.invoked # <<>> => conn.invoked[1].cb = registered[Sent.method]
    /\ bridge.invoked # <<>> => bridge.invoked[1].cb = registered[bridge.req.method]

\* the Response the claim gives for a method the table does not hold
NotFoundResponse(r) ==
    [ jsonrpc |-> "2.0", result |-> None,
      error |-> Some([ code |-> -1,
                       message |-> "method " \o Grave \o r.method \o Grave \o " not found",
                       data |-> None ]),
      id |-> r.id ]

C4_Step ==
    /\ ( /\ conn.pc = "read"
         /\ conn'.bytes.kind = "request"
         /\ conn'.bytes.req.jsonrpc = "2.0"
         /\ conn'.bytes.req.method \notin DOMAIN rpc_method )
       => ( /\ conn'.pc = "write"
            /\ conn'.invoked = <<>>
            /\ conn'.response = Some(NotFoundResponse(conn'.bytes.req)) )
    /\ (conn.pc = "write" /\ conn'.pc = "done") => conn'.wrote = <<Unwrap(conn.response)>>

\* C4: a "2.0" request naming a method the table does not hold at dispatch
\* invokes no callback and is answered with code -1, the message naming the
\* method, no data, no result and the request's id; that Response is the one
\* written.
C4_UnknownMethodError == [][C4_Step]_vars

C4_Witness ==
    /\ conn.pc = "done"
    /\ Parsed
    /\ Sent.jsonrpc = "2.0"
    /\ Sent.method = "missing"
    /\ registered # EmptyTable
    /\ conn.wrote = <<NotFoundResponse(Sent)>>

\* C5: a parsed request whose version is not "2.0" is answered with code
\* -32600, the serialized request as data, no result and the request's id,
\* for every method name.
C5_VersionMismatchResponse ==
    (Parsed /\ Sent.jsonrpc # "2.0") =>
        /\ conn.pc \in {"write", "done"}
        /\ IsSome(conn.response)
        /\ Unwrap(conn.response).result = None
        /\ IsSome(Unwrap(conn.response).error)
        /\ Unwrap(Unwrap(conn.response).error).code = -32600
        /\ Unwrap(Unwrap(conn.response).error).data = Some(WireRequest(Sent))
        /\ Unwrap(conn.response).id = Sent.id
        /\ conn.pc = "done" => conn.wrote = <<Unwrap(conn.response)>>

C5_Witness ==
    /\ conn.pc = "done"
    /\ Parsed
    /\ Sent.jsonrpc = "1.0"
    /\ Sent.method \in DOMAIN rpc_method
    /\ Len(conn.wrote) = 1
    /\ Unwrap(conn.wrote[1].error).code = -32600

\* C6: the message of the version-mismatch Response is the text the
\* protocol gives for an invalid request.
C6_InvalidRequestMessage ==
    (Parsed /\ Sent.jsonrpc # "2.0" /\ IsSome(conn.response)) =>
        Unwrap(Unwrap(conn.response).error).message
            = "Invalid Request: The JSON sent is not a valid Request object."

\* C7: the connection handler calls run_callback, and so invokes a
\* callback, only when the connection's bytes parsed into a Request whose
\* version is "2.0"; a connection that read nothing, unparsable bytes or
\* another version looks nothing up.
C7_OnlyValidRequestsDispatched ==
    (conn.lookups > 0 \/ conn.invoked # <<>>) => (Parsed /\ Sent.jsonrpc = "2.0")

C7_Witness ==
    /\ conn.pc = "done"
    /\ Parsed
    /\ Sent.jsonrpc = "1.0"
    /\ Sent.method \in DOMAIN rpc_method
    /\ conn.lookups = 0
    /\ conn.invoked = <<>>

\* C8: a connection whose bytes do not parse into a Request is closed by
\* the step that read them, and nothing is written to it.
C8_UnparsableDropped ==
    conn.bytes.kind \in {"garbage", "nofield"} =>
        (conn.pc = "done" /\ conn.wrote = <<>> /\ conn.sent = <<>> /\ conn.response = None)

C8_Witness ==
    /\ conn.pc = "done"
    /\ conn.bytes.kind = "nofield"
    /\ conn.wrote = <<>>
    /\ lpc = "join"

\* C9: a "2.0" request naming a method that was registered has that
\* method's callback invoked once, with the shared context and the request's
\* params, and a success value v is answered with result v, no error,
\* version "2.0" and the request's id.
C9_RegisteredMethodInvoked ==
    ( /\ conn.pc \in {"callback", "write", "done"}
      /\ Parsed
      /\ Sent.jsonrpc = "2.0"
      /\ Sent.method \in DOMAIN registered )
    => /\ conn.invoked
            = <<[cb |-> registered[Sent.method], ctx |-> Ctx, params |-> Sent.params]>>
       /\ (IsSome(conn.outcome) /\ Unwrap(conn.outcome).ok) =>
              conn.response
                  = Some([ jsonrpc |-> "2.0", result |-> Some(Unwrap(conn.outcome).val),
                           error |-> None, id |-> Sent.id ])

\* the callback awaited for the connection failed
CallbackFailed == conn.invoked # <<>> /\ IsSome(conn.outcome) /\ ~Unwrap(conn.outcome).ok

\* C10: when the invoked callback fails with an application error, the
\* Response holds that error's code, message and data unchanged, no result,
\* and the request's id, and it is the Response written.
C10_ApplicationErrorVerbatim ==
    CallbackFailed =>
        /\ conn.response
               = Some([ jsonrpc |-> "2.0", result |-> None,
                        error |-> Some(Unwrap(conn.outcome).err.rpc), id |-> Sent.id ])
        /\ conn.pc = "done" => conn.wrote = <<Unwrap(conn.response)>>

C10_Witness ==
    /\ conn.pc = "done"
    /\ CallbackFailed
    /\ Len(conn.wrote) = 1
    /\ conn.wrote[1].error
           = Some([code |-> 42, message |-> "insufficient funds", data |-> None])

\* exactly one of result and error is present
OneOfResultError(r) == IsSome(r.result) # IsSome(r.error)

\* C11: every Response the handler builds or writes, on the version
\* mismatch, method-not-found, callback success and callback failure paths,
\* has exactly one of result and error.
C11_ResultXorError ==
    /\ IsSome(conn.response) => OneOfResultError(Unwrap(conn.response))
    /\ \A i \in 1..Len(conn.wrote) : OneOfResultError(conn.wrote[i])
    /\ \A i \in 1..Len(conn.sent) : OneOfResultError(conn.sent[i])

C11_Witness ==
    /\ conn.pc = "done"
    /\ conn.invoked # <<>>
    /\ Len(conn.sent) = 1
    /\ IsSome(conn.sent[1].result)
    /\ conn.sent[1].error = None

\* a step of the accept loop of listen
listener_step == loop_test \/ accept \/ join

\* C12: while the task spawned for a connection has not finished, the
\* accept loop can go on to its next iteration: it does not wait for the task.
C12_AcceptDoesNotWait ==
    (lpc = "join" /\ conn.pc \in {"read", "callback", "write"}) => ENABLED listener_step

\* client k sends a well-formed request
ValidRequest(k) ==
    /\ clients[k].bytes.kind = "request"
    /\ clients[k].bytes.req.jsonrpc = "2.0"

\* every client sends one valid request to a registered method of its own,
\* whose callback returns a value
DistinctRegisteredMethods ==
    \A k \in DOMAIN clients :
        /\ ValidRequest(k)
        /\ clients[k].bytes.req.method \in DOMAIN registered
        /\ CallbackOutcomes(registered[clients[k].bytes.req.method], Ctx,
                            clients[k].bytes.req.params)
               = {Ok(clients[k].bytes.req.params)}
        /\ \A j \in DOMAIN clients \ {k} :
               clients[j].bytes.req.method # clients[k].bytes.req.method

\* the Response client k is owed: its own id, the value of its own callback
OwnResponse(k) ==
    Response("2.0", Some(clients[k].bytes.req.params), None, clients[k].bytes.req.id)

\* C13: when every client sends one valid request to a distinct registered
\* method, what a client receives is the Response with its own id and its
\* own callback's value, never an error or another client's result, in
\* whatever order the connections are accepted.
C13_EveryClientServed ==
    DistinctRegisteredMethods =>
        \A k \in DOMAIN clients :
            (clients[k].state = "closed" /\ clients[k].got # <<>>)
                => clients[k].got = <<OwnResponse(k)>>

C14_Step ==
    /\ (stop /\ lpc = "test") => lpc' \in {"test", "returned"}
    /\ (stop /\ lpc # "accept") => lpc' # "accept"
    /\ (lpc # "returned" /\ lpc' = "returned") => (stop /\ lpc = "test" /\ conn = NoConn)

\* C14: the stop flag is looked at only between accept iterations. With
\* the flag set, the test of the flag ends the loop and listen returns
\* Ok(()); no accept begins unless it was already in flight, and the loop
\* ends nowhere else than at the test, with no handler task left.
C14_StopBetweenIterations == [][C14_Step]_vars

C14_Witness ==
    /\ stop
    /\ lpc = "returned"
    /\ accepted = 1

\* C15: a handler task in flight while the stop flag is set is not
\* cancelled: each of its read, dispatch and write steps can still be taken,
\* a parsed request still has its Response passed to write_all, and listen
\* does not return while the task exists.
C15_InFlightHandlerCompletes ==
    /\ (stop /\ conn.pc = "read") => ENABLED handler_read
    /\ (stop /\ conn.pc = "callback") => ENABLED handler_callback
    /\ (stop /\ conn.pc = "write") => ENABLED handler_write
    /\ (stop /\ conn.pc = "done" /\ Parsed) => Len(conn.wrote) = 1
    /\ lpc = "returned" => conn = NoConn

C15_Witness ==
    /\ stop
    /\ lpc = "join"
    /\ conn.pc = "done"
    /\ VersionOk(Sent)
    /\ Len(conn.wrote) = 1

\* C16: a failed accept, read or write on one connection does not end the
\* listener: it never panics, a connection whose read failed is sent
\* nothing, and the loop stays able to go on.
C16_TransportFailureNotFatal ==
    /\ lpc # "panicked"
    /\ (conn.pc = "done" /\ conn.bytes.kind = "none") => conn.wrote = <<>>
    /\ (lpc = "join" /\ conn.pc = "done") => ENABLED join

\* client j has been handled and its connection carried unparsable bytes, a
\* wrong jsonrpc version, an unknown method, or a method whose callback failed
HandledBadRequest(j) ==
    /\ clients[j].state = "closed"
    /\ \/ ~ValidRequest(j)
       \/ clients[j].bytes.req.method \notin DOMAIN registered
       \/ clients[j].got # <<>> /\ IsSome(clients[j].got[1].error)

\* client k is the connection being handled, with a valid request to a
\* registered method, and its handler is past the dispatch
ValidRequestHandled(k) ==
    /\ clients[k].state = "connected"
    /\ ValidRequest(k)
    /\ clients[k].bytes.req.method \in DOMAIN registered
    /\ conn.pc \in {"callback", "write", "done"}

\* C17: after one connection with a bad request and no other, the listener
\* is still in its loop and the valid request on the following connection
\* is served: the callback registered for its method is invoked.
C17_OneBadRequestDoesNotStop ==
    \A j, k \in DOMAIN clients :
        ( /\ HandledBadRequest(j)
          /\ \A i \in DOMAIN clients \ {j} : clients[i].state # "closed"
          /\ ValidRequestHandled(k) )
        => /\ lpc = "join"
           /\ Len(conn.invoked) = 1
           /\ conn.invoked[1].cb = registered[clients[k].bytes.req.method]

\* C18: listen removes a file found at the path, then binds, then sets the
\* permissions to 0o666, and reaches its loop only when all three succeeded;
\* when one fails it returns the error, the later steps are not taken and
\* no connection is accepted.
C18_StartupOrderedFailFast ==
    /\ lpc \in {"test", "accept", "join", "returned", "panicked"}
           => sock = [file |-> "socket", mode |-> 438]
    /\ accepted > 0 => sock = [file |-> "socket", mode |-> 438]
    /\ lpc \in {"init", "failed"} => (accepted = 0 /\ conn = NoConn /\ sock.mode = 0)
    /\ sock.mode # 0 => sock.file = "socket"

C18_Witness ==
    /\ lpc = "failed"
    /\ sock.file = "socket"
    /\ sock.mode = 0
    /\ accepted = 0

\* C19: CommandHandler::handle, with a handler set and a method name that
\* was never registered, returns Ok(None).
C19_UnknownMethodSkipped ==
    ( /\ bridge.pc = "returned"
      /\ bridge.lookups = 1
      /\ bridge.req.method \notin DOMAIN registered )
    => bridge.result = Some(BridgeOk(None))

C20_Step ==
    /\ conn'.lookups <= 1
    /\ Len(conn'.invoked) <= 1
    /\ Len(conn'.wrote) <= 1
    /\ Len(conn'.sent) <= 1
    /\ conn.pc \in {"callback", "write", "done"}
           => (conn'.bytes = conn.bytes /\ conn'.pc # "read") \/ conn' = NoConn
    /\ conn.pc = "done" => conn' \in {conn, NoConn}

\* C20: a connection carries one request and at most one response: its
\* handler reads once, looks the method up at most once, invokes at most
\* one callback, writes at most once, and after the write nothing happens
\* on the connection but its closing.
C20_OneRequestPerConnection == [][C20_Step]_vars

C20_Witness ==
    /\ accepted = 2
    /\ conn.pc = "done"
    /\ conn.lookups = 1
    /\ Len(conn.invoked) = 1
    /\ Len(conn.wrote) = 1

\* what the callback the bridge call invoked may have yielded
BridgeOutcomes ==
    CallbackOutcomes(bridge.invoked[1].cb, bridge.invoked[1].ctx, bridge.invoked[1].params)

\* C21: when the table holds the requested method at the bridge's dispatch,
\* handle returns the callback's bare outcome, Ok(Some(v)) for a value v and
\* the callback's own error for a failure, with no jsonrpc or id around it.
C21_BridgeReturnsBareOutcome ==
    (bridge.pc = "returned" /\ bridge.invoked # <<>>) =>
        /\ bridge.invoked[1].params = bridge.req.params
        /\ \E resp \in BridgeOutcomes :
            Unwrap(bridge.result) =
                IF resp.ok THEN [ok |-> TRUE, val |-> Some(resp.val), err |-> BridgeOk(None).err]
                           ELSE [ok |-> FALSE, val |-> None, err |-> resp.err]

C21_Witness ==
    /\ bridge.pc = "returned"
    /\ bridge.invoked # <<>>
    /\ ~Unwrap(bridge.result).ok
    /\ Unwrap(bridge.result).err \in {RpcErrorIntoError(e) : e \in AppErrors}

\* C22: threads calling the methods of one BDKWalletManager concurrently
\* are serialized by the inner Mutex, and no call panics on the borrow
\* state of the outer RefCell.
C22_SharedWalletNeverPanics ==
    /\ \A t \in Threads : wallet.th[t].pc # "panicked"
    /\ \A t, u \in Threads :
           (wallet.th[t].pc \in {"work", "unlock"} /\ wallet.th[u].pc \in {"work", "unlock"})
               => t = u

\* holder a is inside its access to the HashMap of rpc_method
Accessing(a) == cell.acc[a].pc = "in"

\* C23: no two threads are inside an access to rpc_method at once when at
\* least one of the two accesses mutates it (add_method's borrow_mut,
\* run_callback's take).
C23_NoOverlappingMutation ==
    \A a, b \in Accessors :
        (a # b /\ Accessing(a) /\ Accessing(b))
            => (Access(cell.acc[a].op) = "shared" /\ Access(cell.acc[b].op) = "shared")

\* a step of listen or of the task it spawned
listen_progress ==
    listen \/ listener_step \/ handler_read \/ handler_callback \/ handler_write

\* C24: once stop() has been called listen() goes on to return: with the
\* flag set, listen has returned, or has not been called, or it or its
\* handler task can still take a step (within the connections counted).
C24_StopLeadsToReturn ==
    stop => \/ lpc \in {"init", "returned", "failed"}
            \/ ENABLED listen_progress
            \/ (lpc = "accept" /\ accepted = MaxConns)

C25_Step ==
    n_handle' = n_handle + 1 =>
        IF bridge_handler
        THEN /\ bridge'.lookups = 1
             /\ bridge'.req.method \in DOMAIN rpc_method
                    => bridge'.invoked = <<CallbackCall(rpc_method[bridge'.req.method], bridge'.req)>>
        ELSE /\ bridge'.pc = "returned"
             /\ bridge'.result = Some([ok |-> TRUE, val |-> None, err |-> BridgeOk(None).err])
             /\ bridge'.lookups = 0
             /\ bridge'.invoked = <<>>
             /\ rpc_method' = rpc_method

\* C25: a call of CommandHandler::handle made while no handler is installed
\* returns Ok(None) with no registry lookup and no callback invocation; made
\* after set_handler it looks the method up in the installed handler and
\* invokes the callback found.
C25_NoHandlerSkips == [][C25_Step]_vars

C25_Witness ==
    /\ ~bridge_handler
    /\ n_handle = 1
    /\ bridge.pc = "returned"
    /\ bridge.req.method \in DOMAIN registered

\* C26: two managers built by try_from from different private keys of the
\* same network have different descriptors, and their first on-chain
\* addresses differ.
C26_WalletDependsOnKey ==
    \A i, j \in Slots :
        ( /\ managers[i].built
          /\ managers[j].built
          /\ managers[i].key.inner # managers[j].key.inner
          /\ managers[i].key.network = managers[j].key.network )
        => /\ managers[i].mgr.wallet.descriptor # managers[j].mgr.wallet.descriptor
           /\ (managers[i].addresses # <<>> /\ managers[j].addresses # <<>>)
                  => managers[i].addresses[1] # managers[j].addresses[1]

\* the sum of the values of the first n descriptors, as a number
RECURSIVE SumValues(_, _)
SumValues(descriptors, n) ==
    IF n = 0 THEN 0 ELSE SumValues(descriptors, n - 1) + descriptors[n].value

HasDuplicateOutpoint(descriptors) ==
    \E i, j \in 1..Len(descriptors) :
        i # j /\ descriptors[i].outpoint = descriptors[j].outpoint

RunningSumExceeds(descriptors) ==
    \E n \in 1..Len(descriptors) : SumValues(descriptors, n) > MaxValueSat

\* C27: create_spending_transaction returns an error whenever two
\* descriptors name the same outpoint or the running sum of the values
\* exceeds the limit after some descriptor; when it succeeds the inputs
\* are the descriptors' outpoints, one each and in order, pairwise distinct,
\* and the values sum to no more than the limit.
C27_SpendingTransactionChecked ==
    spend.called =>
        /\ (HasDuplicateOutpoint(spend.descriptors) \/ RunningSumExceeds(spend.descriptors))
               => spend.result.tag = "Err"
        /\ spend.result.tag = "Ok" =>
               /\ Len(spend.result.input) = Len(spend.descriptors)
               /\ \A i \in 1..Len(spend.descriptors) :
                      spend.result.input[i].previous_output = spend.descriptors[i].outpoint
               /\ ~HasDuplicateOutpoint(spend.descriptors)
               /\ SumValues(spend.descriptors, Len(spend.descriptors)) <= MaxValueSat

====
